---- MODULE Spec2Model ----
(***************************************************************************)
(* vmctl native migration (app/vmctl/vm_native.go): the producer           *)
(* (run / runBackfilling), its cc worker goroutines (do / runSingle), the  *)
(* per-attempt import goroutine, the shared stats and the run's context.   *)
(***************************************************************************)
EXTENDS Integers, Sequences, FiniteSets, TLC

\* ---- bounds of the model ------------------------------------------------
MaxCC == 2
MaxMetrics == 2
MaxTime == 3
MaxTenants == 2
MaxAttempts == 2
MaxOrphans == 1

Workers == 1..MaxCC

\* ---- texts of the configuration -----------------------------------------
\* A configured string is modelled by its kind and, for an RFC3339 time or a
\* chunk step, the value it denotes.
TimeText(t) == [kind |-> "rfc3339", t |-> t]
EmptyText == [kind |-> "empty", t |-> 0]
BadText == [kind |-> "bad", t |-> 0]
StepText == [kind |-> "step", t |-> 1]

StartTexts == {BadText, TimeText(1)}
EndTexts == {EmptyText, BadText} \cup {TimeText(t) : t \in 1..(MaxTime - 1)}
ChunkTexts == {EmptyText, BadText, StepText}

\* time.Now() of the run
Now == MaxTime

\* a parser that accepts every text
ParseTimeLenient(s) == [ok |-> TRUE, t |-> s.t]

\* time.Parse(time.RFC3339, s)
ParseTime(s) == [ok |-> s.kind = "rfc3339", t |-> s.t]

\* t.Format(time.RFC3339)
FormatTime(t) == TimeText(t)

Min(a, b) == IF a < b THEN a ELSE b

RECURSIVE SplitFrom(_, _, _)
SplitFrom(from, end, d) ==
    IF from >= end THEN <<>>
    ELSE <<<<from, Min(from + d, end)>>>> \o SplitFrom(Min(from + d, end), end, d)

\* stepper.SplitDateRange(start, end, chunk)
SplitDateRange(start, end, chunk) ==
    [ok |-> chunk.kind = "step",
     ranges |-> IF chunk.kind = "step" THEN SplitFrom(start, end, chunk.t) ELSE <<>>]

\* native.Filter values handed to the workers
MkFilter(match, times) ==
    [Match |-> match, TimeStart |-> FormatTime(times[1]), TimeEnd |-> FormatTime(times[2])]
NoFilter == [Match |-> 0, TimeStart |-> EmptyText, TimeEnd |-> EmptyText]

VARIABLES
    cc,            \* p.cc
    filter,        \* p.filter: Match (its validity), TimeStart, TimeEnd, Chunk
    interCluster,  \* p.interCluster
    cancelled,     \* ctx.Done() is closed
    pcP,           \* position of the goroutine executing run / runBackfilling
    ranges,        \* run: ranges
    tenants,       \* run: len(tenants)
    ti,            \* run: index of the tenant being processed
    metrics,       \* runBackfilling: metrics (a set of names)
    todo,          \* metrics the range loop has not visited yet
    curM,          \* s, the metric of the current iteration
    ri,            \* index of the range the select is about to send
    spawned,       \* the current runBackfilling has started its workers
    filterClosed,  \* close(filterCh) was executed
    errCh,         \* buffered error channel
    rbRet,         \* last runBackfilling: "idle" | "running" | "nil" | "err"
    rbErr,         \* the error the last runBackfilling returned, "none" if nil
    runRet,        \* run: "none" | "nil" | "err"
    pc,            \* worker goroutine position
    cur,           \* worker: f, the filter it received
    att,           \* worker: attempts counted by backoff.Retry
    werr,          \* worker: err returned by backoff.Retry
    imp,           \* worker: import goroutine of the current attempt
    mu,            \* stats.Mutex: 0 free, else the worker holding it
    tmp,           \* worker: values of bytes, requests read under the lock
    bytes,         \* p.s.bytes
    requests,      \* p.s.requests
    retries,       \* p.s.retries
    orphans,       \* import goroutines left behind by returned attempts
    sent,          \* history: filters sent on filterCh by this runBackfilling
    completed,     \* history: filters whose do returned nil (this runBackfilling)
    doFailed,      \* history: some do returned an error
    okBytes,       \* history: bytes written by attempts that returned nil
    okReqs         \* history: number of attempts that returned nil

cfgVars == <<filter, interCluster>>
prodVars == <<pcP, ranges, tenants, ti, metrics, todo, curM, ri, spawned,
              filterClosed, rbRet, rbErr, runRet>>
workVars == <<pc, cur, att, werr, imp, tmp>>
statVars == <<mu, bytes, requests, retries>>
histVars == <<sent, completed, doFailed, okBytes, okReqs>>
vars == <<cc, cfgVars, cancelled, prodVars, errCh, workVars, statVars, orphans, histVars>>

Init ==
    /\ cc \in 0..MaxCC
    /\ filter \in [matchOk : BOOLEAN, TimeStart : StartTexts,
                   TimeEnd : EndTexts, Chunk : ChunkTexts]
    /\ interCluster \in BOOLEAN
    /\ cancelled = FALSE
    /\ pcP = "run"
    /\ ranges = <<>>
    /\ tenants = 0
    /\ ti = 1
    /\ metrics = {}
    /\ todo = {}
    /\ curM = 0
    /\ ri = 1
    /\ spawned = FALSE
    /\ filterClosed = FALSE
    /\ errCh = <<>>
    /\ rbRet = "idle"
    /\ rbErr = "none"
    /\ runRet = "none"
    /\ pc = [w \in Workers |-> "none"]
    /\ cur = [w \in Workers |-> NoFilter]
    /\ att = [w \in Workers |-> 0]
    /\ werr = [w \in Workers |-> FALSE]
    /\ imp = [w \in Workers |-> "none"]
    /\ mu = 0
    /\ tmp = [w \in Workers |-> <<0, 0>>]
    /\ bytes = 0
    /\ requests = 0
    /\ retries = 0
    /\ orphans = 0
    /\ sent = <<>>
    /\ completed = {}
    /\ doFailed = FALSE
    /\ okBytes = 0
    /\ okReqs = 0

\* ---- run ------------------------------------------------------------------

\* runBackfilling returns the error e and run wraps and returns it (lines 85-88)
RbReturnsErr(e) ==
    /\ rbRet' = "err"
    /\ rbErr' = e
    /\ pcP' = "done"
    /\ runRet' = "err"
    /\ UNCHANGED ti

\* runBackfilling returns nil and run goes on with the next tenant (line 84)
RbReturnsNil ==
    /\ rbRet' = "nil"
    /\ rbErr' = "none"
    /\ pcP' = "loop"
    /\ ti' = ti + 1
    /\ UNCHANGED runRet

\* run, lines 40-71: p.cc default, fresh stats, time window, ranges
RunStart ==
    /\ pcP = "run"
    /\ cc' = IF cc = 0 THEN 1 ELSE cc
    /\ bytes' = 0 /\ requests' = 0 /\ retries' = 0
    /\ LET s == ParseTime(filter.TimeStart)
           e == IF filter.TimeEnd.kind = "empty"
                THEN [ok |-> TRUE, t |-> Now]
                ELSE ParseTime(filter.TimeEnd)
           sp == SplitDateRange(s.t, e.t, filter.Chunk)
           bad == ~s.ok \/ ~e.ok \/ (filter.Chunk.kind # "empty" /\ ~sp.ok)
       IN IF bad
          THEN /\ pcP' = "done"
               /\ runRet' = "err"
               /\ UNCHANGED <<ranges, tenants>>
          ELSE /\ ranges' = IF filter.Chunk.kind = "empty"
                            THEN <<<<s.t, e.t>>>> ELSE sp.ranges
               /\ tenants' = IF interCluster THEN 0 ELSE 1
               /\ pcP' = IF interCluster THEN "tenants" ELSE "loop"
               /\ UNCHANGED runRet
    /\ UNCHANGED <<cfgVars, cancelled, ti, metrics, todo, curM, ri, spawned,
                   filterClosed, rbRet, rbErr, errCh, workVars, mu, orphans,
                   histVars>>

\* run, lines 72-82: tenant discovery and its prompt
DiscoverTenants ==
    /\ pcP = "tenants"
    /\ \/ /\ pcP' = "done"
          /\ runRet' = "err"
          /\ UNCHANGED tenants
       \/ \E n \in 0..MaxTenants, silent \in BOOLEAN, yes \in BOOLEAN :
            /\ ~cancelled
            /\ tenants' = n
            /\ IF ~silent /\ ~yes
               THEN pcP' = "done" /\ runRet' = "nil"
               ELSE pcP' = "loop" /\ UNCHANGED runRet
    /\ UNCHANGED <<cc, cfgVars, cancelled, ranges, ti, metrics, todo, curM, ri,
                   spawned, filterClosed, rbRet, rbErr, errCh, workVars, statVars,
                   orphans, histVars>>

\* run, lines 84-94: no tenant is left
RunEnd ==
    /\ pcP = "loop"
    /\ ti > tenants
    /\ pcP' = "done"
    /\ runRet' = "nil"
    /\ UNCHANGED <<cc, cfgVars, cancelled, ranges, tenants, ti, metrics, todo,
                   curM, ri, spawned, filterClosed, rbRet, rbErr, errCh, workVars,
                   statVars, orphans, histVars>>

\* ---- runBackfilling ---------------------------------------------------------

\* the worker loop written "i <= p.cc": one goroutine too many
NumWorkersOffByOne == cc + 1

\* p.cc workers are started, each at "for f := range filterCh" (lines 217-232)
NumWorkers == cc

\* the error channel made one slot short of the number of workers
ErrChCapShort == cc - 1

\* make(chan error, p.cc) (line 215)
ErrChCap == cc

\* the empty check left out: an empty Explore result is treated like any other
NoMetricsIgnored(ms) == FALSE

\* len(metrics) == 0 (line 185)
NoMetricsFound(ms) == ms = {}

\* runBackfilling, lines 152-183: building the import path or Explore fails
\* before any worker exists
RbInitFail ==
    /\ pcP = "loop"
    /\ ti <= tenants
    /\ spawned' = FALSE
    /\ metrics' = {}
    /\ sent' = <<>>
    /\ completed' = {}
    /\ \E e \in {"labels", "explore"} : RbReturnsErr(e)
    /\ UNCHANGED <<cc, cfgVars, cancelled, ranges, tenants, todo, curM, ri,
                   filterClosed, errCh, workVars, statVars, orphans, doFailed,
                   okBytes, okReqs>>

\* runBackfilling, lines 179-187: Explore returns no metric
RbNoMetrics ==
    /\ pcP = "loop"
    /\ ti <= tenants
    /\ ~cancelled
    /\ \E m \in 0..MaxMetrics :
         /\ NoMetricsFound(1..m)
         /\ metrics' = 1..m
    /\ spawned' = FALSE
    /\ sent' = <<>>
    /\ completed' = {}
    /\ RbReturnsErr("nometrics")
    /\ UNCHANGED <<cc, cfgVars, cancelled, ranges, tenants, todo, curM, ri,
                   filterClosed, errCh, workVars, statVars, orphans, doFailed,
                   okBytes, okReqs>>

\* runBackfilling, lines 179-196: metrics are found and the user declines the
\* prompt
RbDeclined ==
    /\ pcP = "loop"
    /\ ti <= tenants
    /\ ~interCluster
    /\ ~cancelled
    /\ \E m \in 0..MaxMetrics :
         /\ ~NoMetricsFound(1..m)
         /\ metrics' = 1..m
    /\ spawned' = FALSE
    /\ sent' = <<>>
    /\ completed' = {}
    /\ RbReturnsNil
    /\ UNCHANGED <<cc, cfgVars, cancelled, ranges, tenants, todo, curM, ri,
                   filterClosed, errCh, workVars, statVars, orphans, doFailed,
                   okBytes, okReqs>>

\* runBackfilling, lines 152-232: metrics explored, channels made, workers started
RbSpawn ==
    /\ pcP = "loop"
    /\ ti <= tenants
    /\ ~cancelled
    /\ \E m \in 0..MaxMetrics :
         /\ ~NoMetricsFound(1..m)
         /\ metrics' = 1..m
         /\ todo' = 1..m
    /\ curM' = 0
    /\ ri' = 1
    /\ filterClosed' = FALSE
    /\ errCh' = <<>>
    /\ spawned' = TRUE
    /\ rbRet' = "running"
    /\ rbErr' = "none"
    /\ pcP' = "metric"
    /\ pc' = [w \in Workers |-> IF w <= NumWorkers THEN "recv" ELSE "none"]
    /\ sent' = <<>>
    /\ completed' = {}
    /\ UNCHANGED <<cc, cfgVars, cancelled, ranges, tenants, ti, runRet, cur, att,
                   werr, imp, tmp, statVars, orphans, doFailed, okBytes, okReqs>>

\* buildMatchWithFilter(filter, metricName), lines 315-323: only parsing the
\* configured filter can fail
buildMatchWithFilter(f, metricName) == [ok |-> f.matchOk, match |-> metricName]

\* runBackfilling, lines 235-241 and 258: the next metric of the map, in any
\* order; a metric whose match cannot be built is skipped
NextMetric ==
    /\ pcP = "metric"
    /\ \/ /\ todo = {}
          /\ filterClosed' = TRUE
          /\ pcP' = "wait"
          /\ UNCHANGED <<todo, curM, ri>>
       \/ \E s \in todo :
            /\ todo' = todo \ {s}
            /\ filterClosed' = filterClosed
            /\ IF buildMatchWithFilter(filter, s).ok /\ Len(ranges) > 0
               THEN curM' = s /\ ri' = 1 /\ pcP' = "select"
               ELSE UNCHANGED <<curM, ri, pcP>>
    /\ UNCHANGED <<cc, cfgVars, cancelled, ranges, tenants, ti, metrics, spawned,
                   rbRet, rbErr, runRet, errCh, workVars, statVars, orphans,
                   histVars>>

\* the producer's position after the select sent ranges[ri] (lines 243, 235)
\* the range loop left after its first send
AfterSendOneRange == ri' = 1 /\ pcP' = "metric" /\ UNCHANGED curM

AfterSend ==
    IF ri < Len(ranges)
    THEN ri' = ri + 1 /\ UNCHANGED <<pcP, curM>>
    ELSE ri' = 1 /\ pcP' = "metric" /\ UNCHANGED curM

\* select, case <-ctx.Done() (lines 245-246)
SelectCancelled ==
    /\ pcP = "select"
    /\ cancelled
    /\ RbReturnsErr("cancelled")
    /\ UNCHANGED <<cc, cfgVars, cancelled, ranges, tenants, metrics, todo, curM,
                   ri, spawned, filterClosed, errCh, workVars, statVars, orphans,
                   histVars>>

\* select, case infErr := <-errCh (lines 247-248)
SelectError ==
    /\ pcP = "select"
    /\ Len(errCh) > 0
    /\ errCh' = Tail(errCh)
    /\ RbReturnsErr("native")
    /\ UNCHANGED <<cc, cfgVars, cancelled, ranges, tenants, metrics, todo, curM,
                   ri, spawned, filterClosed, workVars, statVars, orphans, histVars>>

\* the receiver of a value sent on filterCh: a worker blocked at "for f := range
\* filterCh"; the workers run the same code on the same data, so the
\* lowest-numbered waiting worker stands for whichever the runtime picks
Receiver(w) ==
    /\ pc[w] = "recv"
    /\ \A v \in Workers : pc[v] = "recv" => w <= v

\* select, case filterCh <- native.Filter{...} (lines 249-253) meeting worker w
\* at "for f := range filterCh" (line 222), which calls p.do(f) (line 223)
Send(w) ==
    /\ pcP = "select"
    /\ Receiver(w)
    /\ LET f == MkFilter(buildMatchWithFilter(filter, curM).match, ranges[ri])
       IN /\ cur' = [cur EXCEPT ![w] = f]
          /\ sent' = Append(sent, f)
    /\ pc' = [pc EXCEPT ![w] = "export"]
    /\ att' = [att EXCEPT ![w] = 0]
    /\ AfterSend
    /\ UNCHANGED <<cc, cfgVars, cancelled, ranges, tenants, ti, metrics, todo,
                   spawned, filterClosed, rbRet, rbErr, runRet, errCh, werr, imp,
                   tmp, statVars, orphans, completed, doFailed, okBytes, okReqs>>

\* the drain after wg.Wait left out: the buffered errors are never looked at
DrainSkipped == FALSE

\* for err := range errCh (lines 262-264): the closed channel still yields an
\* error when one is buffered
ErrBuffered == Len(errCh) > 0

\* wg.Wait() left out: the producer goes on while workers still run
WaitSkipped == TRUE

\* wg.Wait() (line 259) returns once every started worker has called wg.Done
AllWorkersDone == \A w \in Workers : pc[w] \in {"none", "exit"}

\* wg.Wait(); close(errCh); the first buffered error, if any (lines 259-266)
WaitWorkers ==
    /\ pcP = "wait"
    /\ AllWorkersDone
    /\ IF ErrBuffered
       THEN errCh' = Tail(errCh) /\ RbReturnsErr("import")
       ELSE errCh' = errCh /\ RbReturnsNil
    /\ UNCHANGED <<cc, cfgVars, cancelled, ranges, tenants, metrics, todo, curM,
                   ri, spawned, filterClosed, workVars, statVars, orphans, histVars>>

\* ---- workers: do, backoff.Retry, runSingle ----------------------------------

\* the bytes io.Copy reports for a filter: the source holds a fixed amount of
\* data for each (metric, range)
ShardBytes(f) == f.Match + f.TimeStart.t

\* backoff.Retry after a failed attempt, n attempts made so far: sleep and
\* retry while attempts remain, else give up with the last error
RetryNext(n) == IF n < MaxAttempts THEN "backoff" ELSE "ret"

\* the attempt of worker w failed: runSingle returned an error to Retry
AttemptFailed(w) ==
    /\ pc' = [pc EXCEPT ![w] = RetryNext(att'[w])]
    /\ werr' = [werr EXCEPT ![w] = TRUE]

\* for f := range filterCh, after close(filterCh): the worker exits (lines 221-222)
RecvClosed(w) ==
    /\ pc[w] = "recv"
    /\ filterClosed
    /\ pc' = [pc EXCEPT ![w] = "exit"]
    /\ UNCHANGED <<cc, cfgVars, cancelled, prodVars, errCh, cur, att, werr, imp,
                   tmp, statVars, orphans, histVars>>

\* runSingle, lines 113-116: ExportPipe fails, no import goroutine was started
ExportFail(w) ==
    /\ pc[w] = "export"
    /\ att' = [att EXCEPT ![w] = @ + 1]
    /\ AttemptFailed(w)
    /\ UNCHANGED <<cc, cfgVars, cancelled, prodVars, errCh, cur, imp, tmp,
                   statVars, orphans, histVars>>

\* runSingle, lines 113-132: ExportPipe succeeds (the context is live), the
\* pipe is made and the import goroutine started
ExportOk(w) ==
    /\ pc[w] = "export"
    /\ ~cancelled
    /\ att' = [att EXCEPT ![w] = @ + 1]
    /\ imp' = [imp EXCEPT ![w] = "run"]
    /\ pc' = [pc EXCEPT ![w] = "copy"]
    /\ UNCHANGED <<cc, cfgVars, cancelled, prodVars, errCh, cur, werr, tmp,
                   statVars, orphans, histVars>>

\* runSingle, lines 134-137: io.Copy fails reading the export stream; the
\* attempt returns with the pipe open and the import goroutine still reading it
\* the stats updated before the result of io.Copy is looked at
CopyReadFailCounted(w) ==
    /\ pc[w] = "copy"
    /\ orphans < MaxOrphans
    /\ imp' = [imp EXCEPT ![w] = "none"]
    /\ orphans' = orphans + 1
    /\ att' = att
    /\ AttemptFailed(w)
    /\ bytes' = bytes + ShardBytes(cur[w])
    /\ requests' = requests + 1
    /\ UNCHANGED <<cc, cfgVars, cancelled, prodVars, errCh, cur, tmp, mu, retries,
                   histVars>>

CopyReadFail(w) ==
    /\ pc[w] = "copy"
    /\ orphans < MaxOrphans
    /\ imp' = [imp EXCEPT ![w] = "none"]
    /\ orphans' = orphans + 1
    /\ att' = att
    /\ AttemptFailed(w)
    /\ UNCHANGED <<cc, cfgVars, cancelled, prodVars, errCh, cur, tmp, statVars,
                   histVars>>

\* runSingle, lines 120-126 and 134-137: ImportPipe fails and closes the read
\* end, the goroutine logs and ends, io.Copy fails writing to the closed pipe
CopyPipeClosed(w) ==
    /\ pc[w] = "copy"
    /\ imp' = [imp EXCEPT ![w] = "none"]
    /\ att' = att
    /\ AttemptFailed(w)
    /\ UNCHANGED <<cc, cfgVars, cancelled, prodVars, errCh, cur, tmp, statVars,
                   orphans, histVars>>

\* the stats updated without holding the lock
MutexIgnored(w) == TRUE

\* sync.Mutex.Lock returns to w only while no goroutine holds the mutex
MutexFree(w) == mu = 0

\* runSingle, lines 134-141: io.Copy reaches EOF of the export stream,
\* p.s.Lock(), and the reads of bytes and requests
StatsLock(w) ==
    /\ pc[w] = "copy"
    /\ MutexFree(w)
    /\ mu' = w
    /\ tmp' = [tmp EXCEPT ![w] = <<bytes, requests>>]
    /\ pc' = [pc EXCEPT ![w] = "store"]
    /\ UNCHANGED <<cc, cfgVars, cancelled, prodVars, errCh, cur, att, werr, imp,
                   bytes, requests, retries, orphans, histVars>>

\* runSingle, lines 140-146: the writes of bytes and requests, p.s.Unlock(),
\* pw.Close() (an io.PipeWriter's Close returns nil)
StatsStore(w) ==
    /\ pc[w] = "store"
    /\ bytes' = tmp[w][1] + ShardBytes(cur[w])
    /\ requests' = tmp[w][2] + 1
    /\ mu' = 0
    /\ tmp' = [tmp EXCEPT ![w] = <<0, 0>>]
    /\ pc' = [pc EXCEPT ![w] = "waitdone"]
    /\ UNCHANGED <<cc, cfgVars, cancelled, prodVars, errCh, cur, att, werr, imp,
                   retries, orphans, histVars>>

\* what runSingle returns once the import goroutine has ended with result r
\* ("ok" or "fail"): line 149 returns nil, the goroutine's error is only logged
RunSingleFailsAfterImport(r) == FALSE

\* runSingle, lines 120-126 and 147-149: the import goroutine reads EOF, ends
\* with or without an error and closes done; runSingle returns
WaitDone(w) ==
    /\ pc[w] = "waitdone"
    /\ \E r \in {"ok", "fail"} :
         /\ imp' = [imp EXCEPT ![w] = r]
         /\ IF RunSingleFailsAfterImport(r)
            THEN AttemptFailed(w) /\ UNCHANGED <<okBytes, okReqs>>
            ELSE /\ pc' = [pc EXCEPT ![w] = "ret"]
                 /\ werr' = [werr EXCEPT ![w] = FALSE]
                 /\ okBytes' = okBytes + ShardBytes(cur[w])
                 /\ okReqs' = okReqs + 1
    /\ att' = att
    /\ UNCHANGED <<cc, cfgVars, cancelled, prodVars, errCh, cur, tmp, statVars,
                   orphans, sent, completed, doFailed>>

\* backoff.Retry: the sleep between attempts ends and the next attempt starts
BackoffElapsed(w) ==
    /\ pc[w] = "backoff"
    /\ pc' = [pc EXCEPT ![w] = "export"]
    /\ UNCHANGED <<cc, cfgVars, cancelled, prodVars, errCh, cur, att, werr, imp,
                   tmp, statVars, orphans, histVars>>

\* backoff.Retry: the sleep is interrupted by ctx.Done(), the last error returned
BackoffCancelled(w) ==
    /\ pc[w] = "backoff"
    /\ cancelled
    /\ pc' = [pc EXCEPT ![w] = "ret"]
    /\ UNCHANGED <<cc, cfgVars, cancelled, prodVars, errCh, cur, att, werr, imp,
                   tmp, statVars, orphans, histVars>>

\* do, line 102: what is added to p.s.retries for a Retry that reported
\* attempts
RetriesAdded(attempts) == attempts

\* do, lines 100-108, and the worker's lines 223-229: the retries update under
\* the lock, then the error is handed to the publish or the loop goes on
DoReturn(w) ==
    /\ pc[w] = "ret"
    /\ MutexFree(w)
    /\ retries' = retries + RetriesAdded(att[w])
    /\ imp' = [imp EXCEPT ![w] = "none"]
    /\ IF werr[w]
       THEN /\ pc' = [pc EXCEPT ![w] = "publish"]
            /\ doFailed' = TRUE
            /\ UNCHANGED <<completed, cur>>
       ELSE /\ pc' = [pc EXCEPT ![w] = "recv"]
            /\ completed' = completed \cup {cur[w]}
            /\ cur' = [cur EXCEPT ![w] = NoFilter]
            /\ UNCHANGED doFailed
    /\ att' = [att EXCEPT ![w] = 0]
    /\ UNCHANGED <<cc, cfgVars, cancelled, prodVars, errCh, werr, tmp, mu, bytes,
                   requests, orphans, sent, okBytes, okReqs>>

\* worker, lines 224-225: errCh <- err, then return (wg.Done)
\* the return after the publish left out: the worker goes on receiving
PublishAndContinue(w) ==
    /\ pc[w] = "publish"
    /\ Len(errCh) < ErrChCap
    /\ errCh' = Append(errCh, cur[w])
    /\ pc' = [pc EXCEPT ![w] = "recv"]
    /\ cur' = [cur EXCEPT ![w] = NoFilter]
    /\ werr' = [werr EXCEPT ![w] = FALSE]
    /\ UNCHANGED <<cc, cfgVars, cancelled, prodVars, att, imp, tmp, statVars,
                   orphans, histVars>>

Publish(w) ==
    /\ pc[w] = "publish"
    /\ Len(errCh) < ErrChCap
    /\ errCh' = Append(errCh, cur[w])
    /\ pc' = [pc EXCEPT ![w] = "exit"]
    /\ cur' = [cur EXCEPT ![w] = NoFilter]
    /\ werr' = [werr EXCEPT ![w] = FALSE]
    /\ UNCHANGED <<cc, cfgVars, cancelled, prodVars, att, imp, tmp, statVars,
                   orphans, histVars>>

\* ---- the context and what hangs on it ----------------------------------------

\* the caller cancels ctx
Cancel ==
    /\ ~cancelled
    /\ cancelled' = TRUE
    /\ UNCHANGED <<cc, cfgVars, prodVars, errCh, workVars, statVars, orphans,
                   histVars>>

\* an import goroutine left behind ends when its request is aborted by ctx
OrphanEnds ==
    /\ cancelled
    /\ orphans > 0
    /\ orphans' = orphans - 1
    /\ UNCHANGED <<cc, cfgVars, cancelled, prodVars, errCh, workVars, statVars,
                   histVars>>

Producer ==
    \/ RunStart \/ DiscoverTenants \/ RunEnd
    \/ RbInitFail \/ RbNoMetrics \/ RbDeclined \/ RbSpawn \/ NextMetric
    \/ SelectCancelled \/ SelectError \/ (\E w \in Workers : Send(w))
    \/ WaitWorkers

Worker(w) ==
    \/ RecvClosed(w)
    \/ ExportFail(w) \/ ExportOk(w)
    \/ CopyReadFail(w) \/ CopyPipeClosed(w)
    \/ StatsLock(w) \/ StatsStore(w) \/ WaitDone(w)
    \/ BackoffElapsed(w) \/ BackoffCancelled(w)
    \/ DoReturn(w) \/ Publish(w)

Next == Producer \/ (\E w \in Workers : Worker(w)) \/ Cancel \/ OrphanEnds

Spec == Init /\ [][Next]_vars

\* the configurations of the liveness check: a chunked window of two ranges
\* handled by up to MaxCC workers for one tenant, and an unchunked window
\* handled by one worker for the discovered tenants
FairInit ==
    /\ Init
    /\ filter.TimeStart = TimeText(1)
    /\ filter.TimeEnd = EmptyText
    /\ filter.Chunk = IF interCluster THEN EmptyText ELSE StepText
    /\ interCluster => cc <= 1

\* every enabled step of the producer and of each worker is eventually taken
\* (the Go scheduler runs every runnable goroutine); the caller need not cancel
FairSpec ==
    /\ FairInit
    /\ [][Next]_vars
    /\ WF_vars(Producer)
    /\ \A w \in Workers : WF_vars(Worker(w))

\* ---- properties -------------------------------------------------------------

\* worker w is inside p.do (line 223)
InDo(w) == pc[w] \in {"export", "copy", "store", "waitdone", "backoff", "ret"}

\* worker w has left its goroutine, or was never started
Exited(w) == pc[w] \in {"none", "exit"}

\* the current runBackfilling started its workers and has returned
RbReturned == spawned /\ rbRet \in {"nil", "err"}

\* the filters of every (metric, range) pair of the current runBackfilling
AllShards == {MkFilter(m, ranges[i]) : m \in metrics, i \in 1..Len(ranges)}

\* the number of places of the sequence q that hold x
Occurrences(q, x) == Cardinality({i \in 1..Len(q) : q[i] = x})

\* C1: whenever runBackfilling has returned after starting its workers,
\* filterCh is closed and every worker goroutine has exited.
C1_ReturnClosesAndJoins ==
    RbReturned => (filterClosed /\ \A w \in Workers : Exited(w))

\* C2: while an error published by a worker sits in errCh, no step sends a
\* further filter on filterCh.
C2_NoSendAfterPublishedError ==
    [][Len(errCh) > 0 => Len(sent') <= Len(sent)]_vars

\* C3: when runBackfilling returns nil after starting its workers, with no do
\* failed and ctx not cancelled, every (metric, range) pair was sent exactly
\* once, nothing else was sent, and every pair's do has returned nil.
C3_EveryShardExactlyOnce ==
    (RbReturned /\ rbRet = "nil" /\ ~doFailed /\ ~cancelled) =>
        /\ \A f \in AllShards : Occurrences(sent, f) = 1
        /\ Len(sent) = Cardinality(metrics) * Len(ranges)
        /\ completed = AllShards

\* C4: at most cc calls of do are in progress, cc = 0 counting as 1.
C4_ConcurrencyBound ==
    Cardinality({w \in Workers : InDo(w)}) <= (IF cc = 0 THEN 1 ELSE cc)

C4_Witness ==
    /\ cc = 2
    /\ Cardinality({w \in Workers : InDo(w)}) = 2

\* C5: once some do has returned an error, neither runBackfilling nor run
\* returns nil.
C5_FailedShardFailsRun ==
    doFailed => (rbRet # "nil" /\ runRet # "nil")

\* a shard failed after the last shard was sent and the run returned the
\* error found by the drain after wg.Wait
C5_Witness ==
    /\ doFailed
    /\ filterClosed
    /\ rbRet = "err"
    /\ runRet = "err"
    /\ pcP = "done"

\* C6: an attempt whose import task ended with an error returns an error to
\* the retry policy.
C6_ImportFailureReturned ==
    [][\A w \in Workers :
          (pc[w] = "waitdone" /\ imp'[w] = "fail") => werr'[w]]_vars

\* C7: a do that ends in success after Retry reported k attempts adds k-1 to
\* the retries counter.
C7_RetriesCountsFailedAttempts ==
    [][\A w \in Workers :
          (pc[w] = "ret" /\ ~werr[w] /\ pc'[w] = "recv")
              => retries' = retries + att[w] - 1]_vars

C9_NoSendAfterCancel ==
    [][cancelled => Len(sent') <= Len(sent)]_vars

\* C10: every runBackfilling that started its workers eventually returns, and
\* every worker that has an error to publish eventually publishes it and exits.
C10_RunBackfillingReturns ==
    /\ (rbRet = "running") ~> (rbRet # "running")
    /\ \A w \in Workers : (pc[w] = "publish") ~> (pc[w] = "exit")

\* both workers failed, one error was taken by the drain, runBackfilling returned
C10_Witness ==
    /\ cc = 2
    /\ filterClosed
    /\ rbRet = "err"
    /\ Len(errCh) = 1
    /\ \A w \in Workers : pc[w] = "exit"

\* C11: when buildMatchWithFilter fails for a metric, runBackfilling does not
\* return nil: the error is fatal, the metric is not skipped.
C11_MatchErrorIsFatal ==
    (spawned /\ \E m \in metrics : ~buildMatchWithFilter(filter, m).ok)
        => rbRet # "nil"

\* C12: no worker is ever started for an empty Explore result, and once
\* runBackfilling has returned "no metrics found" nothing was dispatched, no
\* worker runs, run has returned an error and stays at the failing tenant.
C12_NoMetricsIsFatal ==
    /\ spawned => metrics # {}
    /\ rbErr = "nometrics" =>
         /\ metrics = {}
         /\ ~spawned
         /\ sent = <<>>
         /\ \A w \in Workers : Exited(w)
         /\ rbRet = "err"
         /\ runRet = "err"
         /\ pcP = "done"
         /\ ti <= tenants

\* the second tenant of an inter-cluster run has no metrics, after the first
\* tenant was transferred
C12_Witness ==
    /\ rbErr = "nometrics"
    /\ interCluster
    /\ ti = 2
    /\ requests > 0

\* C13: every filter sent to a worker has its start before its end.
C13_DispatchedRangeNotEmpty ==
    \A i \in 1..Len(sent) : sent[i].TimeStart.t < sent[i].TimeEnd.t

\* C14: no import goroutine outlives the attempt that started it: none is left
\* behind by a returned attempt, and a worker's import goroutine runs only
\* while its runSingle is between ImportPipe and <-done.
C14_ImportJoinedOnReturn ==
    /\ orphans = 0
    /\ \A w \in Workers :
         imp[w] = "run" => pc[w] \in {"copy", "store", "waitdone"}

\* the streams open at one moment: export streams being copied, plus import
\* goroutines running, those left behind by returned attempts included
OpenStreams ==
    Cardinality({w \in Workers : pc[w] = "copy"})
    + Cardinality({w \in Workers : imp[w] = "run"})
    + orphans

\* C15: at most 2*cc streams are open in every reachable state.
C15_StreamBound == OpenStreams <= 2 * cc

\* the index in ranges of the time range of filter f
RangeIdx(f) ==
    CHOOSE k \in 1..Len(ranges) : MkFilter(f.Match, ranges[k]) = f

\* C16 as stated: filters are sent in ascending (metric, range) order
C16_AscendingMetricOrder ==
    \A i, j \in 1..Len(sent) :
        i < j => \/ sent[i].Match < sent[j].Match
                 \/ /\ sent[i].Match = sent[j].Match
                    /\ RangeIdx(sent[i]) < RangeIdx(sent[j])

\* C16: the ranges of one metric are sent in ascending order, one after the
\* other, before any filter of another metric; a metric is taken once, and
\* only after the last range of the metric before it.
C16_RangesInOrderPerMetric ==
    \A i \in 1..Len(sent) :
        IF i > 1 /\ sent[i - 1].Match = sent[i].Match
        THEN RangeIdx(sent[i]) = RangeIdx(sent[i - 1]) + 1
        ELSE /\ RangeIdx(sent[i]) = 1
             /\ i > 1 => RangeIdx(sent[i - 1]) = Len(ranges)
             /\ \A j \in 1..(i - 1) : sent[j].Match # sent[i].Match

\* both ranges of metric 2 were sent before both ranges of metric 1
C16_Witness ==
    /\ Len(sent) = 4
    /\ Len(ranges) = 2
    /\ sent[1].Match = 2
    /\ sent[3].Match = 1

\* the configuration run rejects: a start or a non-empty end that is not
\* RFC3339, or a chunk that is no step
ConfigRejected ==
    \/ filter.TimeStart.kind # "rfc3339"
    \/ filter.TimeEnd.kind = "bad"
    \/ filter.Chunk.kind = "bad"

\* C17: with a rejected configuration run returns an error at once: no tenant
\* or metric discovery, no worker, no transfer, all three counters 0.
C17_ConfigErrorStopsRun ==
    (ConfigRejected /\ pcP # "run") =>
        /\ pcP = "done"
        /\ runRet = "err"
        /\ tenants = 0
        /\ rbRet = "idle"
        /\ metrics = {}
        /\ ~spawned
        /\ sent = <<>>
        /\ \A w \in Workers : pc[w] = "none"
        /\ bytes = 0 /\ requests = 0 /\ retries = 0

\* run has returned on a chunk the planner rejects, both times being valid
C17_Witness ==
    /\ pcP = "done"
    /\ runRet = "err"
    /\ filter.TimeStart.kind = "rfc3339"
    /\ filter.TimeEnd.kind = "rfc3339"
    /\ filter.Chunk.kind = "bad"

\* C18: every error in errCh comes from a different worker that has exited,
\* errCh never holds more than cc errors, and a worker about to publish finds
\* a free slot.
C18_PublishNeverBlocks ==
    /\ Len(errCh) <= Cardinality({w \in Workers : pc[w] = "exit"})
    /\ Len(errCh) <= cc
    /\ \A w \in Workers : pc[w] = "publish" => Len(errCh) < cc

\* a worker is about to publish while the error of the other is still
\* buffered and the producer no longer reads errCh
C18_Witness ==
    /\ cc = 2
    /\ pcP \in {"wait", "done"}
    /\ Len(errCh) = 1
    /\ \E w \in Workers : pc[w] = "publish"

\* C19: the workers of a later tenant are started only after the
\* runBackfilling before it returned nil with every worker exited; run moves
\* to the next tenant only with all workers exited, so no worker holds a
\* shard of another tenant; after a failed runBackfilling nothing is started
\* and run stays at the failing tenant.
C19_TenantsOneAfterAnother ==
    [][/\ (rbRet' = "running" /\ rbRet # "running" /\ ti > 1) =>
            /\ rbRet = "nil"
            /\ \A w \in Workers : Exited(w)
       /\ ti' # ti => \A w \in Workers : Exited(w)
       /\ rbRet = "err" =>
            /\ rbRet' = "err"
            /\ ti' = ti
            /\ \A w \in Workers : Exited(w) => Exited(w)']_vars

\* workers of the second tenant transfer shards, the first tenant being done
C19_Witness ==
    /\ ti = 2
    /\ rbRet = "running"
    /\ requests > 0
    /\ \E w \in Workers : InDo(w)

\* C20: a step in which an attempt fails (ExportPipe or io.Copy returns an
\* error) leaves bytes and requests unchanged; and the first runBackfilling
\* never counts more requests than the filters it sent.
C20_FailedAttemptNotCounted ==
    /\ [][\A w \in Workers :
            (pc[w] \in {"export", "copy"} /\ pc'[w] \in {"backoff", "ret"})
                => (bytes' = bytes /\ requests' = requests)]_vars
    /\ [](ti = 1 => requests <= Len(sent))

\* the only filter sent was counted once, by the second attempt, after the
\* first attempt failed
C20_Witness ==
    /\ Len(sent) = 1
    /\ \E w \in Workers : pc[w] = "ret" /\ att[w] = 2 /\ ~werr[w]
    /\ retries = 0
    /\ requests = 1
    /\ doFailed = FALSE

====
